---- MODULE Spec2Model ----
(***************************************************************************)
(* httptmux: a command-line HTTP client with a file-backed request history *)
(* and a file-backed JWT credential.  The repository ships three variants  *)
(* of the same program:                                                    *)
(*   "termux"  - src/unnamed/part_000 (oldest: 8 menu actions)             *)
(*   "desktop" - src/index_desktop.js (11 menu actions, JWT sub-dialog)    *)
(*   "cli"     - the program embedded in src/README.md from line 61 on     *)
(*               (11 menu actions plus the non-interactive flag mode)      *)
(* JavaScript functions are modelled as operators over an explicit file    *)
(* system value; an operator that can throw returns a completion record.   *)
(***************************************************************************)
EXTENDS Integers, Sequences, FiniteSets, TLC

(***************************************************************************)
(* Bounds of the model.                                                    *)
(***************************************************************************)
\* executeRequest calls in one behaviour
MaxRequests == 2

Variants == {"termux", "desktop", "cli"}

(***************************************************************************)
(* JavaScript values.  Objects are functions from keys to values (a key    *)
(* that is absent is not in the DOMAIN); numbers and strings that can meet *)
(* in one place (an entry's status) are tagged.                            *)
(***************************************************************************)
Undefined == [t |-> "undefined"]
Null == [t |-> "null"]
True == [t |-> "boolean", b |-> TRUE]
N(n) == [t |-> "number", n |-> n]
S(s) == [t |-> "string", s |-> s]
EmptyObject == [k \in {} |-> ""]
Arr(items) == [t |-> "array", items |-> items]
Obj(fields) == [t |-> "object", fields |-> fields]
IsArray(v) == v.t = "array"

\* JS truthiness of the tagged values the program tests with if (...) or ||
Truthy(v) ==
  CASE v.t = "undefined" -> FALSE
    [] v.t = "null" -> FALSE
    [] v.t = "boolean" -> v.b
    [] v.t = "number" -> v.n # 0
    [] v.t = "string" -> v.s # ""
    [] OTHER -> TRUE

\* completion of a call: normal with a value, or abrupt with an error
Return(v) == [threw |-> FALSE, val |-> v]
Throw(e) == [threw |-> TRUE, err |-> e]

(***************************************************************************)
(* Files.  A path holds no file, or a text.  A text is either the          *)
(* serialisation of a JSON value or something JSON.parse rejects.          *)
(***************************************************************************)
historyFile == "~/.api-cli-history.json"
jwtFile == "~/.api-cli-jwt.json"
defaultExport == "~/httptmux-history-export.json"
customExport == "out.json"
Paths == {historyFile, jwtFile, defaultExport, customExport}

NoFile == [exists |-> FALSE]
File(text) == [exists |-> TRUE, text |-> text]
Garbage == [json |-> FALSE]

\* JSON.stringify(value, null, 2): the text that parses back to the value
JSONStringify(v) == [json |-> TRUE, of |-> v]

\* JSON.parse(text): the value, or a SyntaxError
JSONParse(text) ==
  IF text.json THEN Return(text.of) ELSE Throw("SyntaxError")

existsSync(fs, path) == fs[path].exists
readFileSync(fs, path) == fs[path].text
writeFileSync(fs, path, text) == [fs EXCEPT ![path] = File(text)]
unlinkSync(fs, path) == [fs EXCEPT ![path] = NoFile]

(***************************************************************************)
(* The world a call acts on: the file system, the lines printed and the    *)
(* transport calls made during the current step.                           *)
(***************************************************************************)
World(fs) == [fs |-> fs, out |-> <<>>, net |-> <<>>]
Log(w, line) == [w EXCEPT !.out = Append(@, line)]
Done(w) == [threw |-> FALSE, w |-> w]
Raise(w, e) == [threw |-> TRUE, w |-> w, err |-> e]
\* an Error object: message, and the response when the transport got one
Error(message) == [message |-> message]
HttpError(message, response) == [message |-> message, response |-> response]

(***************************************************************************)
(* History helpers.                                                        *)
(***************************************************************************)
\* loadHistory(): the parsed file, [] when it is missing or unparsable
loadHistory(fs) ==
  IF existsSync(fs, historyFile)
  THEN LET r == JSONParse(readFileSync(fs, historyFile))
       IN  IF r.threw THEN Arr(<<>>) ELSE r.val
  ELSE Arr(<<>>)

\* as pushAndWrite, with history.unshift(entry)
unshiftAndWrite(w, history, entry) ==
  IF IsArray(history)
  THEN Done([w EXCEPT !.fs = writeFileSync(w.fs, historyFile,
                               JSONStringify(Arr(<<entry>> \o history.items)))])
  ELSE Raise(w, Error("history.unshift is not a function"))

\* the write half of saveHistory, given the history it read:
\* history.push(entry); fs.writeFileSync(historyFile, JSON.stringify(history))
pushAndWrite(w, history, entry) ==
  IF IsArray(history)
  THEN Done([w EXCEPT !.fs = writeFileSync(w.fs, historyFile,
                               JSONStringify(Arr(Append(history.items, entry))))])
  ELSE Raise(w, Error("history.push is not a function"))

\* saveHistory(entry)
saveHistory(w, entry) == pushAndWrite(w, loadHistory(w.fs), entry)

\* as clearHistory, without the write
clearHistoryWithoutWrite(w) == Log(w, [line |-> "History cleared."])

\* clearHistory()
clearHistory(w) ==
  Log([w EXCEPT !.fs = writeFileSync(w.fs, historyFile, JSONStringify(Arr(<<>>)))],
      [line |-> "History cleared."])

\* exportHistory(filePath = <home>/httptmux-history-export.json): filePath is
\* undefined (the default applies), a string, or whatever else the caller
\* passed; fs.writeFileSync rejects a path that is no string
exportHistory(w, filePath) ==
  LET path == IF filePath = Undefined THEN S(defaultExport) ELSE filePath
      history == loadHistory(w.fs)
  IN  IF path.t = "string"
      THEN Done(Log([w EXCEPT !.fs = writeFileSync(w.fs, path.s, JSONStringify(history))],
                    [line |-> "History exported to", path |-> path.s]))
      ELSE Raise(w, Error("The \"path\" argument must be of type string"))

(***************************************************************************)
(* Strings.                                                                *)
(***************************************************************************)
\* haystack.includes(needle)
includes(haystack, needle) ==
  \E i \in 1..(Len(haystack) - Len(needle) + 1) :
     SubSeq(haystack, i, i + Len(needle) - 1) = needle

\* index of the first occurrence of the one-character sep in s, 0 if none
indexOf(s, sep) ==
  IF includes(s, sep)
  THEN CHOOSE i \in 1..Len(s) :
         /\ SubSeq(s, i, i) = sep
         /\ \A j \in 1..(i - 1) : SubSeq(s, j, j) # sep
  ELSE 0

\* s.split(sep) for a one-character sep
RECURSIVE split(_, _)
split(s, sep) ==
  LET i == indexOf(s, sep)
  IN  IF i = 0 THEN <<s>>
      ELSE <<SubSeq(s, 1, i - 1)>> \o split(SubSeq(s, i + 1, Len(s)), sep)

(***************************************************************************)
(* JWT helpers.                                                            *)
(***************************************************************************)
\* loadJWT(): data.token || null; null for a missing or unparsable file
loadJWT(fs) ==
  IF existsSync(fs, jwtFile)
  THEN LET r == JSONParse(readFileSync(fs, jwtFile))
       IN  IF r.threw THEN Null
           ELSE IF r.val.t = "object" /\ "token" \in DOMAIN r.val.fields
                   /\ Truthy(r.val.fields.token)
                THEN r.val.fields.token
                ELSE Null
  ELSE Null

\* JSON.parse(Buffer.from(segment, "base64").toString("utf8")) for the
\* payload segments the model uses; any other segment does not parse
Base64JSON(segment) ==
  CASE segment = "e30" -> Return(Obj(EmptyObject))
    [] segment = "eyJleHAiOjF9" -> Return(Obj([exp |-> 1]))
    [] segment = "eyJleHAiOjB9" -> Return(Obj([exp |-> 0]))
    [] segment = "eyJleHAiOjJ9" -> Return(Obj([exp |-> 2]))
    [] segment = "eyJleHAiOjkwfQ" -> Return(Obj([exp |-> 90]))
    [] segment = "eyJleHAiOjEyMH0" -> Return(Obj([exp |-> 120]))
    [] OTHER -> Throw("SyntaxError")

\* decodeJWT(token): the payload, null on any error
decodeJWT(token) ==
  LET segments == split(token, ".")
  IN  IF Len(segments) < 2 THEN Null
      ELSE LET r == Base64JSON(segments[2])
           IN  IF r.threw THEN Null ELSE r.val

\* Math.round(a / b) for b > 0: halves round towards +Infinity
MathRound(a, b) == (2 * a + b) \div (2 * b)

\* checkJWTExpiry(token) at time now (ms)
checkJWTExpiry(w, token, now) ==
  LET payload == decodeJWT(token)
  IN  IF payload # Null /\ "exp" \in DOMAIN payload.fields /\ payload.fields.exp # 0
      THEN LET expiry == payload.fields.exp * 1000
           IN  IF expiry < now
               THEN Log(w, [line |-> "JWT token has expired."])
               ELSE Log(w, [line |-> "JWT expires in minutes",
                            minutesLeft |-> MathRound(expiry - now, 60000)])
      ELSE w

\* saveJWT(token): the termux variant does not report the expiry
saveJWT(v, w, token, now) ==
  LET w1 == Log([w EXCEPT !.fs = writeFileSync(w.fs, jwtFile,
                                   JSONStringify(Obj([token |-> S(token)])))],
                [line |-> "JWT saved successfully."])
  IN  IF v = "termux" THEN w1 ELSE checkJWTExpiry(w1, token, now)

(***************************************************************************)
(* The transport (axios) and the request executor.                         *)
(***************************************************************************)
\* new Date(ms).toISOString() and new Date(iso).getTime()
toISOString(ms) == [iso |-> ms]
DateOf(timestamp) == timestamp.iso

\* what the network does with one call: a 2xx response resolves, any other
\* response rejects with an error carrying it, no response rejects without.
\* The 200 and the 500 come with an Allow header, the 204 comes without.
Outcomes ==
  { [kind |-> "ok", status |-> 200],
    [kind |-> "ok", status |-> 204],
    [kind |-> "http", status |-> 500],
    [kind |-> "network"] }
ResponseOf(outcome) ==
  [status |-> outcome.status, data |-> "data",
   headers |-> IF outcome.status = 204 THEN [server |-> "s"]
               ELSE [allow |-> "GET, HEAD"]]

\* axios({ method, url, headers, data: body }): the call goes out and the
\* network answers; the step keeps both
axios(w, config, outcome) ==
  LET w1 == [w EXCEPT !.net = Append(@, [request |-> config, answer |-> outcome])]
  IN  CASE outcome.kind = "ok" -> [threw |-> FALSE, w |-> w1, val |-> ResponseOf(outcome)]
        [] outcome.kind = "http" ->
             Raise(w1, HttpError("Request failed with status code", ResponseOf(outcome)))
        [] OTHER -> Raise(w1, Error("connect ECONNREFUSED"))

\* as formatError, without the look at error.response
formatErrorWithoutResponse(error) == [status |-> S("ERROR"), message |-> error.message]

\* formatError(error)
formatError(error) ==
  IF "response" \in DOMAIN error
  THEN [status |-> N(error.response.status), data |-> error.response.data,
        message |-> error.message]
  ELSE [status |-> S("ERROR"), message |-> error.message]

\* as withAuthorization, with the spread last: { Authorization: ..., ...headers }
callerAuthorizationWins(headers, jwt) == headers @@ ("Authorization" :> ("Bearer " \o jwt))

\* { ...headers, Authorization: `Bearer ${jwt}` }
withAuthorization(headers, jwt) == ("Authorization" :> ("Bearer " \o jwt)) @@ headers

\* the rendering of a successful response
render(v, w, method, response) ==
  IF v = "cli" /\ method = "HEAD"
  THEN Log(Log(w, [line |-> "Response headers:"]), [line |-> "headers"])
  ELSE IF v = "cli" /\ method = "OPTIONS"
  THEN Log(Log(w, [line |-> "Allowed methods:"]),
           IF "allow" \in DOMAIN response.headers
           THEN [line |-> "allow"] ELSE [line |-> "headers"])
  ELSE Log(Log(w, [line |-> "Response received:"]), [line |-> "data"])

\* as catchRequestError, but the error goes on to the caller
rethrowRequestError(w, req, headers, error, now) == Raise(w, error)

\* the catch block of executeRequest: print, then record the failure
\* with the headers as they stand (after any injection)
catchRequestError(w, req, headers, error, now) ==
  LET formatted == formatError(error)
      w1 == Log(w, [line |-> "Request failed:", message |-> formatted.message])
  IN  saveHistory(w1, [timestamp |-> toISOString(now), method |-> req.method,
                       url |-> req.url, headers |-> headers, body |-> req.body,
                       status |-> formatted.status, error |-> formatted.message])

\* as executeRequest, but a failed call is made once more before the
\* failure is recorded
executeRequestWithRetry(v, w, req, outcome, start, latency) ==
  LET config == [method |-> req.method, url |-> req.url,
                 headers |-> req.headers, data |-> req.body]
      first == axios(w, config, outcome)
  IN  IF first.threw
      THEN LET again == axios(first.w, config, outcome)
           IN  catchRequestError(again.w, req, req.headers, again.err, start + latency)
      ELSE saveHistory(first.w, [timestamp |-> toISOString(start + latency),
                          method |-> req.method, url |-> req.url,
                          headers |-> req.headers, body |-> req.body,
                          status |-> N(first.val.status), duration |-> latency])

\* executeRequest({ method, url, headers, body }); start is Date.now() at
\* the call, latency the time the transport takes
executeRequest(v, w, req, outcome, start, latency) ==
  LET jwt == loadJWT(w.fs)
      headers == IF jwt # Null THEN withAuthorization(req.headers, jwt.s) ELSE req.headers
      w1 == IF jwt # Null /\ v # "termux" THEN checkJWTExpiry(w, jwt.s, start) ELSE w
      call == axios(w1, [method |-> req.method, url |-> req.url,
                         headers |-> headers, data |-> req.body], outcome)
      now == start + latency
  IN  IF call.threw
      THEN catchRequestError(call.w, req, headers, call.err, now)
      ELSE LET w2 == render(v, call.w, req.method, call.val)
               saved == saveHistory(w2, [timestamp |-> toISOString(now),
                          method |-> req.method, url |-> req.url,
                          headers |-> headers, body |-> req.body,
                          status |-> N(call.val.status), duration |-> latency])
           IN  IF saved.threw
               THEN catchRequestError(saved.w, req, headers, saved.err, now)
               ELSE saved

(***************************************************************************)
(* The interaction shell: what the user can type, and the handlers.        *)
(***************************************************************************)
\* the text of what the user types where JSON is expected
InputText(input) ==
  CASE input = "{\"Authorization\":\"Basic x\"}" ->
         JSONStringify(("Authorization" :> "Basic x"))
    [] input = "{\"k\":1}" -> JSONStringify(("k" :> 1))
    [] OTHER -> Garbage

\* let x = {}; try { if (input) x = JSON.parse(input); } catch { console.log(warning) }
parseOrEmpty(w, input, warning) ==
  IF input = "" THEN [w |-> w, val |-> EmptyObject]
  ELSE LET r == JSONParse(InputText(input))
       IN  IF r.threw THEN [w |-> Log(w, [line |-> warning]), val |-> EmptyObject]
           ELSE [w |-> w, val |-> r.val]

\* the choices of the "Select HTTP method:" prompt
MethodChoices(v) ==
  IF v = "cli" THEN {"GET", "POST", "PUT", "DELETE", "PATCH", "HEAD", "OPTIONS"}
  ELSE {"GET", "POST", "PUT", "DELETE"}
\* the methods for which runRequest prompts for a body
BodyMethods(v) ==
  IF v = "cli" THEN {"POST", "PUT", "PATCH"} ELSE {"POST", "PUT"}

\* runRequest(): bodyAnswer is what the user types if asked for a body
runRequest(v, w, method, url, headersInput, bodyAnswer, outcome, start, latency) ==
  LET bodyInput == IF method \in BodyMethods(v) THEN bodyAnswer ELSE ""
      h == parseOrEmpty(w, headersInput, "Invalid JSON for headers.")
      b == parseOrEmpty(h.w, bodyInput, "Invalid JSON for body.")
  IN  executeRequest(v, b.w, [method |-> method, url |-> url,
                              headers |-> h.val, body |-> b.val],
                     outcome, start, latency)

\* rerunHistory(): index is the entry the user picks (0-based)
rerunHistory(v, w, index, outcome, start, latency) ==
  LET history == loadHistory(w.fs)
  IN  IF ~IsArray(history) THEN Raise(w, Error("history.map is not a function"))
      ELSE IF Len(history.items) = 0 THEN Done(Log(w, [line |-> "No history found."]))
      ELSE LET entry == history.items[index + 1]
           IN  executeRequest(v, Log(w, [line |-> "Re-running:", method |-> entry.method,
                                         url |-> entry.url]),
                              [method |-> entry.method, url |-> entry.url,
                               headers |-> entry.headers, body |-> entry.body],
                              outcome, start, latency)

\* String(value) of a status
String(value) == IF value.t = "number" THEN ToString(value.n) ELSE value.s

\* one character upper-cased
Lower == "abcdefghijklmnopqrstuvwxyz"
Upper == "ABCDEFGHIJKLMNOPQRSTUVWXYZ"
upperChar(c) ==
  LET i == indexOf(Lower, c) IN IF i = 0 THEN c ELSE SubSeq(Upper, i, i)

\* keyword.toUpperCase()
RECURSIVE toUpperCase(_)
toUpperCase(keyword) ==
  IF keyword = "" THEN ""
  ELSE upperChar(SubSeq(keyword, 1, 1)) \o toUpperCase(SubSeq(keyword, 2, Len(keyword)))

\* as matchesKeyword, with the url compared without regard to case
matchesKeywordAnyCase(entry, keyword) ==
  \/ includes(entry.method, toUpperCase(keyword))
  \/ includes(toUpperCase(entry.url), toUpperCase(keyword))
  \/ includes(String(entry.status), keyword)

\* the predicate of the search's history.filter
matchesKeyword(entry, keyword) ==
  \/ includes(entry.method, toUpperCase(keyword))
  \/ includes(entry.url, keyword)
  \/ includes(String(entry.status), keyword)

\* the search: the termux and desktop searchHistory() return early on an
\* empty history, the cli variant's inline branch does not
searchHistory(v, w, keyword) ==
  LET history == loadHistory(w.fs)
  IN  IF ~IsArray(history) THEN Raise(w, Error("history.filter is not a function"))
      ELSE IF v # "cli" /\ Len(history.items) = 0
           THEN Done(Log(w, [line |-> "No history found."]))
      ELSE LET results == SelectSeq(history.items, LAMBDA e : matchesKeyword(e, keyword))
           IN  IF Len(results) = 0 THEN Done(Log(w, [line |-> "No matching entries."]))
               ELSE Done(Log(w, [line |-> "Search Results:", listed |-> results]))

\* new Date(since).getTime() for the dates the model types; NaN otherwise
NaN == [t |-> "NaN"]
DateParse(since) ==
  CASE since = "1970-01-01" -> N(0)
    [] since = "1970-01-02" -> N(86400000)
    [] OTHER -> NaN

\* as notBefore, with > for >=
strictlyAfter(timestamp, since) ==
  LET d == DateParse(since)
  IN  d # NaN /\ DateOf(timestamp) > d.n

\* new Date(e.timestamp) >= new Date(since)
notBefore(timestamp, since) ==
  LET d == DateParse(since)
  IN  d # NaN /\ DateOf(timestamp) >= d.n

\* the two filters: status and since are strings, or undefined
filtered(items, status, since) ==
  LET byStatus == IF Truthy(status)
                  THEN SelectSeq(items, LAMBDA e : String(e.status) = status.s)
                  ELSE items
  IN  IF Truthy(since)
      THEN SelectSeq(byStatus, LAMBDA e : notBefore(e.timestamp, since.s))
      ELSE byStatus

\* as filterHistory, but the matches are written back as the history
filterHistoryInPlace(w, status, since) ==
  LET history == loadHistory(w.fs)
  IN  IF ~IsArray(history) /\ (Truthy(status) \/ Truthy(since))
      THEN Raise(w, Error("results.filter is not a function"))
      ELSE IF ~IsArray(history) THEN Raise(w, Error("results.forEach is not a function"))
      ELSE LET results == filtered(history.items, status, since)
               w1 == [w EXCEPT !.fs = writeFileSync(w.fs, historyFile,
                                                    JSONStringify(Arr(results)))]
           IN  IF Len(results) = 0 THEN Done(Log(w1, [line |-> "No matching entries."]))
               ELSE Done(Log(w1, [line |-> "Filtered Results:", listed |-> results]))

\* filterHistory(status, since) of the cli variant
filterHistory(w, status, since) ==
  LET history == loadHistory(w.fs)
  IN  IF ~IsArray(history) /\ (Truthy(status) \/ Truthy(since))
      THEN Raise(w, Error("results.filter is not a function"))
      ELSE IF ~IsArray(history) THEN Raise(w, Error("results.forEach is not a function"))
      ELSE LET results == filtered(history.items, status, since)
           IN  IF Len(results) = 0 THEN Done(Log(w, [line |-> "No matching entries."]))
               ELSE Done(Log(w, [line |-> "Filtered Results:", listed |-> results]))

\* filterHistoryPrompt() of the desktop variant
filterHistoryPrompt(w, status, since) ==
  LET history == loadHistory(w.fs)
  IN  IF IsArray(history) /\ Len(history.items) = 0
      THEN Done(Log(w, [line |-> "No history found."]))
      ELSE filterHistory(w, S(status), S(since))

\* the "View history" branch of main
viewHistory(v, w) ==
  LET history == loadHistory(w.fs)
  IN  IF v = "termux" THEN Done(Log(w, [line |-> "Request History:", listed |-> history]))
      ELSE IF ~IsArray(history) THEN Raise(w, Error("history.forEach is not a function"))
      ELSE IF Len(history.items) = 0 THEN Done(Log(w, [line |-> "No history found."]))
      ELSE Done(Log(w, [line |-> "history", listed |-> history.items]))

\* filePath.trim()
RECURSIVE trim(_)
trim(text) ==
  IF text = "" THEN ""
  ELSE IF SubSeq(text, 1, 1) = " " THEN trim(SubSeq(text, 2, Len(text)))
  ELSE IF SubSeq(text, Len(text), Len(text)) = " " THEN trim(SubSeq(text, 1, Len(text) - 1))
  ELSE text

\* the "Export history" branch of main:
\* exportHistory(filePath && filePath.trim() ? filePath.trim() : undefined)
exportPrompt(w, filePath) ==
  exportHistory(w, IF filePath # "" /\ trim(filePath) # "" THEN S(trim(filePath)) ELSE Undefined)

\* the JWT step.  termux jwtMode(): prompt, save.  desktop jwtMode(): show the
\* current token, then Set new token / Remove token / Back.  cli: the inline
\* "Set JWT token" branch of main.
jwtMode(v, w, action, token, now) ==
  IF v = "termux" THEN Done(saveJWT(v, w, token, now))
  ELSE IF v = "cli"
  THEN IF token = "" \/ ~includes(token, ".")
       THEN Done(Log(w, [line |-> "Invalid JWT format."]))
       ELSE Done(saveJWT(v, w, token, now))
  ELSE LET current == loadJWT(w.fs)
           w1 == IF current # Null
                 THEN checkJWTExpiry(Log(w, [line |-> "Current JWT:"]), current.s, now)
                 ELSE w
       IN  IF action = "Set new token"
           THEN IF token = "" \/ ~includes(token, ".")
                THEN Done(Log(w1, [line |-> "Invalid JWT format."]))
                ELSE Done(saveJWT(v, w1, token, now))
           ELSE IF action = "Remove token"
           THEN Done(Log([w1 EXCEPT !.fs = IF existsSync(w1.fs, jwtFile)
                                           THEN unlinkSync(w1.fs, jwtFile) ELSE w1.fs],
                         [line |-> "JWT removed."]))
           ELSE Done(w1)

\* printHelp(), printVersion()
printHelp(w) == Log(w, [line |-> "httptmux CLI Help"])
printVersion(w) == Log(w, [line |-> "httptmux v"])

(***************************************************************************)
(* The command line, as minimist parses it: pos is args._, a flag that is  *)
(* not given is undefined, a flag given without a value is true.           *)
(***************************************************************************)
NoArgs ==
  [pos |-> <<>>, u |-> Undefined, url |-> Undefined, h |-> Undefined,
   headers |-> Undefined, b |-> Undefined, body |-> Undefined,
   c |-> Undefined, clearHistory |-> Undefined, e |-> Undefined,
   exportHistory |-> Undefined, f |-> Undefined, filterHistory |-> Undefined,
   help |-> Undefined, version |-> Undefined, V |-> Undefined]

\* a || b
Or(a, b) == IF Truthy(a) THEN a ELSE b

\* JSON.parse(value) of a flag's value: a string is parsed, true parses as true
parseFlag(value) ==
  IF value.t = "string" THEN JSONParse(InputText(value.s)) ELSE Return(value)

\* s.startsWith(prefix)
startsWith(s, prefix) == Len(s) >= Len(prefix) /\ SubSeq(s, 1, Len(prefix)) = prefix

\* as filterToken, but taking the last token that starts with key
filterTokenLast(filters, key) ==
  LET hits == SelectSeq(filters, LAMBDA f : startsWith(f, key))
  IN  IF Len(hits) = 0 THEN Undefined
      ELSE LET parts == split(hits[Len(hits)], "=")
           IN  IF Len(parts) < 2 THEN Undefined ELSE S(parts[2])

\* the first filter token that starts with key, split on "=" and indexed [1]
filterToken(filters, key) ==
  LET hits == SelectSeq(filters, LAMBDA f : startsWith(f, key))
  IN  IF Len(hits) = 0 THEN Undefined
      ELSE LET parts == split(hits[1], "=")
           IN  IF Len(parts) < 2 THEN Undefined ELSE S(parts[2])

\* as runNonInteractive, with the export tested before the clear
runNonInteractiveExportFirst(w, args, outcome, start, latency) ==
  LET cliMethod == IF Len(args.pos) > 0 THEN S(args.pos[1]) ELSE Undefined
      cliUrl == Or(args.u, args.url)
      hArg == Or(args.h, args.headers)
      bArg == Or(args.b, args.body)
      cliHeaders == IF Truthy(hArg) THEN parseFlag(hArg) ELSE Return(EmptyObject)
      cliBody == IF Truthy(bArg) THEN parseFlag(bArg) ELSE Return(EmptyObject)
      eArg == Or(args.e, args.exportHistory)
      fArg == Or(args.f, args.filterHistory)
  IN  IF cliHeaders.threw THEN Raise(w, Error("Unexpected token in JSON"))
      ELSE IF cliBody.threw THEN Raise(w, Error("Unexpected token in JSON"))
      ELSE IF Truthy(eArg) THEN exportHistory(w, eArg)
      ELSE IF Truthy(Or(args.c, args.clearHistory)) THEN Done(clearHistory(w))
      ELSE IF Truthy(fArg)
      THEN IF fArg.t # "string" THEN Raise(w, Error("split is not a function"))
           ELSE LET filters == split(fArg.s, " ")
                IN  filterHistory(w, filterToken(filters, "status="),
                                  filterToken(filters, "since="))
      ELSE IF Truthy(cliMethod) /\ Truthy(cliUrl)
      THEN executeRequest("cli", w, [method |-> cliMethod.s, url |-> cliUrl.s,
                                     headers |-> cliHeaders.val, body |-> cliBody.val],
                          outcome, start, latency)
      ELSE Done(w)

\* runNonInteractive()
runNonInteractive(w, args, outcome, start, latency) ==
  LET cliMethod == IF Len(args.pos) > 0 THEN S(args.pos[1]) ELSE Undefined
      cliUrl == Or(args.u, args.url)
      hArg == Or(args.h, args.headers)
      bArg == Or(args.b, args.body)
      cliHeaders == IF Truthy(hArg) THEN parseFlag(hArg) ELSE Return(EmptyObject)
      cliBody == IF Truthy(bArg) THEN parseFlag(bArg) ELSE Return(EmptyObject)
      eArg == Or(args.e, args.exportHistory)
      fArg == Or(args.f, args.filterHistory)
  IN  IF cliHeaders.threw THEN Raise(w, Error("Unexpected token in JSON"))
      ELSE IF cliBody.threw THEN Raise(w, Error("Unexpected token in JSON"))
      ELSE IF Truthy(Or(args.c, args.clearHistory)) THEN Done(clearHistory(w))
      ELSE IF Truthy(eArg) THEN exportHistory(w, eArg)
      ELSE IF Truthy(fArg)
      THEN IF fArg.t # "string" THEN Raise(w, Error("split is not a function"))
           ELSE LET filters == split(fArg.s, " ")
                IN  filterHistory(w, filterToken(filters, "status="),
                                  filterToken(filters, "since="))
      ELSE IF Truthy(cliMethod) /\ Truthy(cliUrl)
      THEN executeRequest("cli", w, [method |-> cliMethod.s, url |-> cliUrl.s,
                                     headers |-> cliHeaders.val, body |-> cliBody.val],
                          outcome, start, latency)
      ELSE Done(w)

\* as showHelp, but yielding to a positional word and to -c
helpWhenAlone(v, args) == Truthy(args.help) /\ Len(args.pos) = 0 /\ ~Truthy(args.c)

\* the flags main() tests before anything else
showHelp(v, args) ==
  IF v = "cli" THEN Truthy(args.help) \/ args.h = True ELSE Truthy(args.help)
showVersion(v, args) ==
  IF v = "cli" THEN Truthy(args.version) \/ args.V = True ELSE Truthy(args.version)
\* args._.length > 0 || args.c || args.e || args.f
nonInteractive(v, args) ==
  v = "cli" /\ (Len(args.pos) > 0 \/ Truthy(args.c) \/ Truthy(args.e) \/ Truthy(args.f))

\* the choices of the "Choose an action:" prompt
MenuChoices(v) ==
  IF v = "termux"
  THEN {"Make new request", "View history", "Re-run from history", "Search history",
        "Set JWT token", "Help", "Version", "Exit"}
  ELSE {"Make new request", "View history", "Re-run from history", "Search history",
        "Clear history", "Export history", "Filter history", "Set JWT token",
        "Help", "Version", "Exit"}

\* the "Re-run from history" branch of main; the cli variant calls a
\* rerunHistory that it does not define
menuRerun(v, w, index, outcome, start, latency) ==
  IF v = "cli" THEN Raise(w, Error("rerunHistory is not defined"))
  ELSE rerunHistory(v, w, index, outcome, start, latency)

\* the "Filter history" branch of main
menuFilter(v, w, status, since) ==
  IF v = "cli" THEN filterHistory(w, S(status), S(since))
  ELSE filterHistoryPrompt(w, status, since)

(***************************************************************************)
(* What the model types and what the network answers.                      *)
(***************************************************************************)
MethodsTried == {"GET", "POST", "HEAD", "OPTIONS"}
Urls == {"http://a"}
HeaderInputs == {"", "{bad json", "{\"Authorization\":\"Basic x\"}"}
BodyInputs == {"", "{bad json", "{\"k\":1}"}
Tokens == {"", "abc", "h.e30.s", "h.eyJleHAiOjF9.s"}
Keywords == {"", "get", "http://A", "50", "40", "Error"}
StatusInputs == {"", "200", "404", "ERROR"}
SinceInputs == {"", "1970-01-01", "1970-01-02", "soon"}
ExportInputs == {"", " ", "out.json ", jwtFile}
JwtActions == {"Set new token", "Remove token", "Back"}
Latencies == {0, 1}
RequestLines ==
  { [NoArgs EXCEPT !.pos = <<"GET">>, !.u = S("http://a")],
    [NoArgs EXCEPT !.pos = <<"GET">>, !.u = S("http://a"), !.h = S("{bad json")],
    [NoArgs EXCEPT !.pos = <<"POST">>, !.url = S("http://a"),
                   !.headers = S("{\"Authorization\":\"Basic x\"}"), !.b = S("{\"k\":1}")],
    [NoArgs EXCEPT !.pos = <<"POST">>, !.u = S("http://a"), !.body = S("{bad json")],
    [NoArgs EXCEPT !.pos = <<"HEAD">>, !.u = S("http://a")],
    [NoArgs EXCEPT !.pos = <<"head">>, !.u = S("http://a")],
    [NoArgs EXCEPT !.pos = <<"OPTIONS">>, !.u = S("http://a")],
    [NoArgs EXCEPT !.pos = <<"options">>, !.url = S("http://a")] }
CommandLines ==
  RequestLines \cup
  { NoArgs,
    [NoArgs EXCEPT !.help = True],
    [NoArgs EXCEPT !.version = True],
    [NoArgs EXCEPT !.pos = <<"GET">>],
    [NoArgs EXCEPT !.c = True],
    [NoArgs EXCEPT !.e = S("out.json")],
    [NoArgs EXCEPT !.e = True],
    [NoArgs EXCEPT !.f = S("status=200 since=1970-01-01")] }

\* a history entry left by an earlier run
Entry0 ==
  [timestamp |-> toISOString(0), method |-> "GET", url |-> "http://a",
   headers |-> EmptyObject, body |-> EmptyObject, status |-> N(200), duration |-> 1]
InitialHistoryFiles ==
  { NoFile, File(Garbage), File(JSONStringify(Arr(<<Entry0>>))) }
InitialJwtFiles ==
  { NoFile, File(JSONStringify(Obj([token |-> S("h.e30.s")]))) }

(***************************************************************************)
(* The program as a state machine.                                         *)
(***************************************************************************)
VARIABLES
  variant,   \* which of the three programs runs
  fs,        \* the files: path -> NoFile or File(text)
  now,       \* Date.now()
  pc,        \* "start", "menu" (the prompt is up), "ran", "exit0", "exit1"
  keepGoing, \* main's loop variable
  requests,  \* executeRequest calls so far
  last,      \* the step just taken: its name, its input, what it printed and sent
  store,     \* the history file at the start, and the entries appended since
             \* the start or the last clear
  procs      \* processes inside saveHistory: between the read and the write

vars == <<variant, fs, now, pc, keepGoing, requests, last, store, procs>>

NoStep == [op |-> "none", input |-> <<>>, out |-> <<>>, net |-> <<>>, threw |-> FALSE]

\* the processes that append to the history file
Procs == {1, 2}
StoreAtStart(files) == [origin |-> files[historyFile], journal |-> <<>>, cleared |-> FALSE]
NoProcs == [mode |-> "one", writes |-> <<>>,
            of |-> [p \in Procs |-> [pc |-> "idle", history |-> Undefined]]]

InitFiles(historyFiles, jwtFiles) ==
  \E hf \in historyFiles, jf \in jwtFiles :
     fs = [p \in Paths |-> IF p = historyFile THEN hf
                           ELSE IF p = jwtFile THEN jf ELSE NoFile]

Init ==
  /\ variant \in Variants
  /\ InitFiles(InitialHistoryFiles, InitialJwtFiles)
  /\ now = 1
  /\ pc = "start"
  /\ keepGoing = TRUE
  /\ requests = 0
  /\ last = NoStep
  /\ store = StoreAtStart(fs)
  /\ procs = NoProcs

\* the common effect of a step whose handler completed with r: the files,
\* the clock (it advances over a transport call) and the record of the step;
\* an error that leaves main ends the process with exit code 1
Step(op, input, r, latency, nextpc) ==
  /\ requests + Len(r.w.net) <= MaxRequests
  /\ fs' = r.w.fs
  /\ now' = IF Len(r.w.net) > 0 THEN now + latency ELSE now
  /\ requests' = requests + Len(r.w.net)
  /\ last' = [op |-> op, input |-> input, out |-> r.w.out, net |-> r.w.net,
              threw |-> r.threw]
  /\ pc' = IF r.threw THEN "exit1" ELSE nextpc
  /\ UNCHANGED <<variant, store, procs>>

\* main() up to the first prompt: --help, --version, the non-interactive
\* mode, or the banner and the menu
LaunchOver(commandLines) ==
  /\ pc = "start"
  /\ UNCHANGED keepGoing
  /\ \E args \in commandLines, outcome \in Outcomes, latency \in Latencies :
       LET w == World(fs)
       IN  IF showHelp(variant, args)
           THEN Step("main", args, Done(printHelp(w)), 0, "exit0")
           ELSE IF showVersion(variant, args)
           THEN Step("main", args, Done(printVersion(w)), 0, "exit0")
           ELSE IF nonInteractive(variant, args)
           THEN Step("main", args, runNonInteractive(w, args, outcome, now, latency),
                     latency, "exit0")
           ELSE Step("main", args, Done(Log(w, [line |-> "httptmux"])), 0, "menu")

\* the loop test and the prompt: while (keepGoing) { await inquirer.prompt(...)
Prompt ==
  /\ pc = "ran"
  /\ keepGoing
  /\ pc' = "menu"
  /\ last' = NoStep
  /\ UNCHANGED <<variant, fs, now, keepGoing, requests, store, procs>>

\* the loop test fails: "Exiting httptmux. Goodbye!" and main returns
Finish ==
  /\ pc = "ran"
  /\ ~keepGoing
  /\ pc' = "exit0"
  /\ last' = [NoStep EXCEPT !.op = "finish",
                            !.out = <<[line |-> "Exiting httptmux. Goodbye!"]>>]
  /\ UNCHANGED <<variant, fs, now, keepGoing, requests, store, procs>>

\* one iteration of the loop takes the branch of the chosen action
Menu(choice) == pc = "menu" /\ choice \in MenuChoices(variant) /\ UNCHANGED keepGoing

MakeNewRequestOver(methods, headerInputs, bodyInputs, outcomes, latencies) ==
  /\ Menu("Make new request")
  /\ \E method \in methods \cap MethodChoices(variant), url \in Urls,
        headersInput \in headerInputs, bodyAnswer \in bodyInputs,
        outcome \in outcomes, latency \in latencies :
       Step("Make new request",
            [method |-> method, url |-> url, headersInput |-> headersInput,
             bodyAnswer |-> bodyAnswer, outcome |-> outcome, latency |-> latency],
            runRequest(variant, World(fs), method, url, headersInput, bodyAnswer,
                       outcome, now, latency),
            latency, "ran")

ViewHistory ==
  /\ Menu("View history")
  /\ Step("View history", <<>>, viewHistory(variant, World(fs)), 0, "ran")

RerunOver(outcomes, latencies) ==
  /\ Menu("Re-run from history")
  /\ LET history == loadHistory(fs)
         indices == IF IsArray(history) /\ Len(history.items) > 0
                    THEN 0..(Len(history.items) - 1) ELSE {0}
     IN  \E index \in indices, outcome \in outcomes, latency \in latencies :
           Step("Re-run from history",
                [index |-> index, outcome |-> outcome, latency |-> latency],
                menuRerun(variant, World(fs), index, outcome, now, latency),
                latency, "ran")

SearchOver(keywords) ==
  /\ Menu("Search history")
  /\ \E keyword \in keywords :
       Step("Search history", [keyword |-> keyword],
            searchHistory(variant, World(fs), keyword), 0, "ran")

ClearHistory ==
  /\ Menu("Clear history")
  /\ Step("Clear history", <<>>, Done(clearHistory(World(fs))), 0, "ran")

ExportOver(filePaths) ==
  /\ Menu("Export history")
  /\ \E filePath \in filePaths :
       Step("Export history", [filePath |-> filePath],
            exportPrompt(World(fs), filePath), 0, "ran")

FilterOver(statuses, sinces) ==
  /\ Menu("Filter history")
  /\ \E status \in statuses, since \in sinces :
       Step("Filter history", [status |-> status, since |-> since],
            menuFilter(variant, World(fs), status, since), 0, "ran")

SetJWTOver(actions, tokens) ==
  /\ Menu("Set JWT token")
  /\ \E action \in actions, token \in tokens :
       Step("Set JWT token", [action |-> action, token |-> token],
            jwtMode(variant, World(fs), action, token, now), 0, "ran")

Help ==
  /\ Menu("Help")
  /\ Step("Help", <<>>, Done(printHelp(World(fs))), 0, "ran")

Version ==
  /\ Menu("Version")
  /\ Step("Version", <<>>, Done(printVersion(World(fs))), 0, "ran")

\* else keepGoing = false
Exit ==
  /\ pc = "menu"
  /\ keepGoing' = FALSE
  /\ Step("Exit", <<>>, Done(World(fs)), 0, "ran")

(***************************************************************************)
(* Spec: the whole program, every action, each with a few inputs.          *)
(***************************************************************************)
Launch == LaunchOver(CommandLines)
MakeNewRequest ==
  MakeNewRequestOver({"GET"}, {""}, {""},
                     {o \in Outcomes : o.kind = "network" \/ o.status = 200}, {1})
RerunFromHistory == RerunOver({o \in Outcomes : o.kind = "http"}, {1})
SearchHistory == SearchOver({"get"})
ExportHistory == ExportOver({"", jwtFile})
FilterHistory == FilterOver({"200"}, {"", "1970-01-02"})
SetJWTToken == SetJWTOver(JwtActions, {"abc", "h.eyJleHAiOjF9.s"})

Next ==
  \/ Launch
  \/ Prompt
  \/ Finish
  \/ MakeNewRequest
  \/ ViewHistory
  \/ RerunFromHistory
  \/ SearchHistory
  \/ ClearHistory
  \/ ExportHistory
  \/ FilterHistory
  \/ SetJWTToken
  \/ Help
  \/ Version
  \/ Exit

Spec == Init /\ [][Next]_vars

(***************************************************************************)
(* SpecRequest: one request from every state a run can start in, by the    *)
(* menu, by a re-run and by the command line, over every input above.      *)
(***************************************************************************)
\* entries left by earlier runs: a success, and a failure sent with a token
Entry1 ==
  [timestamp |-> toISOString(1), method |-> "POST", url |-> "http://a",
   headers |-> ("Authorization" :> "Bearer h.e30.s"), body |-> ("k" :> 1),
   status |-> S("ERROR"), error |-> "connect ECONNREFUSED"]
RequestHistoryFiles ==
  InitialHistoryFiles \cup {File(JSONStringify(Arr(<<>>))),
                            File(JSONStringify(Arr(<<Entry0, Entry1>>)))}
RequestJwtFiles ==
  InitialJwtFiles \cup {File(Garbage),
                        File(JSONStringify(Obj([token |-> S("h.eyJleHAiOjF9.s")]))),
                        File(JSONStringify(Obj([token |-> S("")])))}

InitRequest ==
  /\ variant \in Variants
  /\ InitFiles(RequestHistoryFiles, RequestJwtFiles)
  /\ now \in {1, 1001}
  /\ pc = "start"
  /\ keepGoing = TRUE
  /\ requests = 0
  /\ last = NoStep
  /\ store = StoreAtStart(fs)
  /\ procs = NoProcs

LaunchRequest == LaunchOver(RequestLines \cup {NoArgs})
RequestAny ==
  MakeNewRequestOver(MethodsTried, HeaderInputs, BodyInputs, Outcomes, Latencies)
RerunAny == RerunOver(Outcomes, Latencies)

NextRequest ==
  \/ LaunchRequest
  \/ RequestAny
  \/ RerunAny

SpecRequest == InitRequest /\ [][NextRequest]_vars

(***************************************************************************)
(* SpecJwt: any sequence of JWT steps, over every token above.             *)
(***************************************************************************)
LaunchMenu == LaunchOver({NoArgs})
JwtAny == SetJWTOver(JwtActions, Tokens)

NextJwt ==
  \/ LaunchMenu
  \/ Prompt
  \/ JwtAny

SpecJwt == InitRequest /\ [][NextJwt]_vars

(***************************************************************************)
(* SpecStore: saveHistory and clearHistory called in any order by one      *)
(* process, from every content of the history file.                        *)
(***************************************************************************)
MaxAppends == 3
StoreEntries == {Entry0, Entry1}
StoreHistoryFiles ==
  RequestHistoryFiles \cup {File(JSONStringify(Obj(EmptyObject)))}

InitStore ==
  /\ variant \in Variants
  /\ InitFiles(StoreHistoryFiles, {NoFile})
  /\ now = 1
  /\ pc = "menu"
  /\ keepGoing = TRUE
  /\ requests = 0
  /\ last = NoStep
  /\ store = StoreAtStart(fs)
  /\ procs = NoProcs

\* a call of saveHistory(entry); its TypeError is caught by nobody
SaveEntry ==
  /\ pc = "menu"
  /\ Len(store.journal) < MaxAppends
  /\ \E entry \in StoreEntries :
       LET r == saveHistory(World(fs), entry)
       IN  /\ fs' = r.w.fs
           /\ pc' = IF r.threw THEN "exit1" ELSE pc
           /\ store' = IF r.threw THEN store
                       ELSE [store EXCEPT !.journal = Append(@, entry)]
  /\ UNCHANGED <<variant, now, keepGoing, requests, last, procs>>

\* a call of clearHistory(); the termux variant has none
ClearStore ==
  /\ pc = "menu"
  /\ variant # "termux"
  /\ fs' = clearHistory(World(fs)).fs
  /\ store' = [store EXCEPT !.journal = <<>>, !.cleared = TRUE]
  /\ UNCHANGED <<variant, now, pc, keepGoing, requests, last, procs>>

NextStore ==
  \/ SaveEntry
  \/ ClearStore

SpecStore == InitStore /\ [][NextStore]_vars

(***************************************************************************)
(* SpecRace: two appends to the same history file, from one process or     *)
(* from two. saveHistory is synchronous, so within one process nothing     *)
(* runs between its read and its write; two processes interleave freely.   *)
(***************************************************************************)
\* the entry process p appends
EntryOf(p) == IF p = 1 THEN Entry0 ELSE Entry1

\* as mayEnter, with nothing to keep two calls of one process apart
mayAlwaysEnter(ps, p) == TRUE

\* may the append p start now: in one process a call of saveHistory runs to
\* its end before the next one starts
mayEnter(ps, p) ==
  ps.mode = "two" \/ \A q \in Procs \ {p} : ps.of[q].pc # "read"

InitRace ==
  /\ variant \in Variants
  /\ InitFiles(RequestHistoryFiles, {NoFile})
  /\ now = 1
  /\ pc = "menu"
  /\ keepGoing = TRUE
  /\ requests = 0
  /\ last = NoStep
  /\ store = StoreAtStart(fs)
  /\ procs \in {[NoProcs EXCEPT !.mode = m] : m \in {"one", "two"}}

\* const history = loadHistory();
RaceRead(p) ==
  /\ procs.of[p].pc = "idle"
  /\ mayEnter(procs, p)
  /\ procs' = [procs EXCEPT !.of[p] = [pc |-> "read", history |-> loadHistory(fs)]]
  /\ UNCHANGED <<variant, fs, now, pc, keepGoing, requests, last, store>>

\* history.push(entry); fs.writeFileSync(historyFile, ...)
RaceWrite(p) ==
  /\ procs.of[p].pc = "read"
  /\ LET r == pushAndWrite(World(fs), procs.of[p].history, EntryOf(p))
     IN  /\ fs' = r.w.fs
         /\ procs' = [procs EXCEPT !.of[p].pc = IF r.threw THEN "failed" ELSE "done",
                                   !.writes = IF r.threw THEN @ ELSE Append(@, p)]
  /\ UNCHANGED <<variant, now, pc, keepGoing, requests, last, store>>

NextRace == \E p \in Procs : RaceRead(p) \/ RaceWrite(p)

SpecRace == InitRace /\ [][NextRace]_vars

(***************************************************************************)
(* SpecLaunch: one launch, over the command lines a user can type: short   *)
(* and long forms of the flags, and --help / --version among other words.  *)
(***************************************************************************)
LongFlagLines ==
  { [NoArgs EXCEPT !.clearHistory = True],
    [NoArgs EXCEPT !.exportHistory = S("out.json")],
    [NoArgs EXCEPT !.exportHistory = True],
    [NoArgs EXCEPT !.filterHistory = S("status=200")] }
HelpLines ==
  { [NoArgs EXCEPT !.help = True, !.c = True],
    [NoArgs EXCEPT !.help = True, !.version = True],
    [NoArgs EXCEPT !.help = True, !.pos = <<"GET">>, !.u = S("http://a")],
    [NoArgs EXCEPT !.help = True, !.e = S("out.json")],
    [NoArgs EXCEPT !.help = S("GET"), !.u = S("http://a")],
    [NoArgs EXCEPT !.version = True, !.clearHistory = True],
    [NoArgs EXCEPT !.version = True, !.pos = <<"POST">>, !.u = S("http://a"),
                   !.b = S("{\"k\":1}")],
    [NoArgs EXCEPT !.version = True, !.f = S("status=200")],
    [NoArgs EXCEPT !.h = True],
    [NoArgs EXCEPT !.V = True] }
\* command lines that ask for several things at once, as minimist hands them
\* over (one object, whatever the order the flags were typed in), and
\* command lines with half a request
PriorityLines ==
  { [NoArgs EXCEPT !.c = True, !.e = S("out.json")],
    [NoArgs EXCEPT !.c = True, !.e = S("out.json"), !.f = S("status=200"),
                   !.pos = <<"GET">>, !.u = S("http://a")],
    [NoArgs EXCEPT !.clearHistory = True, !.e = S("out.json")],
    [NoArgs EXCEPT !.c = True, !.h = S("{bad json")],
    [NoArgs EXCEPT !.e = S("out.json"), !.f = S("status=200")],
    [NoArgs EXCEPT !.exportHistory = S("out.json"), !.pos = <<"GET">>,
                   !.u = S("http://a")],
    [NoArgs EXCEPT !.f = S("status=200"), !.pos = <<"GET">>, !.url = S("http://a")],
    [NoArgs EXCEPT !.filterHistory = S("status=200"), !.pos = <<"POST">>,
                   !.u = S("http://a"), !.b = S("{\"k\":1}")],
    [NoArgs EXCEPT !.pos = <<"GET", "http://a">>],
    [NoArgs EXCEPT !.pos = <<"POST">>, !.b = S("{\"k\":1}")],
    [NoArgs EXCEPT !.pos = <<"GET">>, !.h = S("{bad json")],
    [NoArgs EXCEPT !.u = S("http://a")] }
LaunchLines == CommandLines \cup LongFlagLines \cup HelpLines \cup PriorityLines

LaunchAny == LaunchOver(LaunchLines)

NextLaunch == LaunchAny

SpecLaunch == InitRequest /\ [][NextLaunch]_vars

(***************************************************************************)
(* SpecBrowse: export, filter and search, from the menu and from the       *)
(* command line, over histories of zero to four entries.                   *)
(***************************************************************************)
\* four entries in the order they were appended: the second is one
\* millisecond before 1970-01-02, the third exactly at it
BrowseHistory ==
  << Entry0,
     [timestamp |-> toISOString(86399999), method |-> "POST", url |-> "http://a",
      headers |-> EmptyObject, body |-> ("k" :> 1), status |-> N(404),
      error |-> "Request failed with status code"],
     [timestamp |-> toISOString(86400000), method |-> "GET", url |-> "http://b/get",
      headers |-> EmptyObject, body |-> EmptyObject, status |-> N(404),
      error |-> "Request failed with status code"],
     [timestamp |-> toISOString(86400001), method |-> "DELETE", url |-> "http://a",
      headers |-> EmptyObject, body |-> EmptyObject, status |-> S("ERROR"),
      error |-> "connect ECONNREFUSED"] >>
BrowseHistoryFiles ==
  {NoFile, File(Garbage)} \cup
  {File(JSONStringify(Arr(SubSeq(BrowseHistory, 1, n)))) : n \in 0..Len(BrowseHistory)}
BrowseLines ==
  { NoArgs,
    [NoArgs EXCEPT !.e = S("out.json")],
    [NoArgs EXCEPT !.e = True],
    [NoArgs EXCEPT !.f = S("status=404")],
    [NoArgs EXCEPT !.f = S("since=1970-01-02")],
    [NoArgs EXCEPT !.f = S("status=404 since=1970-01-02")],
    [NoArgs EXCEPT !.f = S("since=1970-01-01 status=ERROR")],
    [NoArgs EXCEPT !.f = S("status=404 status=200")],
    [NoArgs EXCEPT !.f = S("since=1970-01-02 status=404 since=1970-01-01")],
    [NoArgs EXCEPT !.f = S("limit=5 status=ERROR")],
    [NoArgs EXCEPT !.f = S("status= since=1970-01-02")],
    [NoArgs EXCEPT !.f = S("status=404  since=1970-01-02")],
    [NoArgs EXCEPT !.f = S("method=GET")] }

InitBrowse ==
  /\ variant \in Variants
  /\ InitFiles(BrowseHistoryFiles, {NoFile})
  /\ now = 1
  /\ pc = "start"
  /\ keepGoing = TRUE
  /\ requests = 0
  /\ last = NoStep
  /\ store = StoreAtStart(fs)
  /\ procs = NoProcs

LaunchBrowse == LaunchOver(BrowseLines)
ExportAny == ExportOver(ExportInputs)
FilterAny == FilterOver(StatusInputs, SinceInputs)
SearchAny == SearchOver(Keywords)

NextBrowse ==
  \/ LaunchBrowse
  \/ Prompt
  \/ ExportAny
  \/ FilterAny
  \/ SearchAny

SpecBrowse == InitBrowse /\ [][NextBrowse]_vars

(***************************************************************************)
(* SpecExpiry: tokens that carry exp, saved at times before, at and after  *)
(* their expiry.                                                           *)
(***************************************************************************)
\* tokens whose payloads are {"exp":0}, {"exp":1}, {"exp":2}, {"exp":90}
\* and {"exp":120}
ExpTokens ==
  { "h.eyJleHAiOjB9.s", "h.eyJleHAiOjF9.s", "h.eyJleHAiOjJ9.s",
    "h.eyJleHAiOjkwfQ.s", "h.eyJleHAiOjEyMH0.s" }
\* Date.now() at the save, in milliseconds
Clock == {0, 1, 999, 1000, 1001, 29999, 30000, 30001, 60000, 90000, 120001}

InitExpiry ==
  /\ variant \in Variants
  /\ InitFiles({NoFile}, {NoFile})
  /\ now \in Clock
  /\ pc = "menu"
  /\ keepGoing = TRUE
  /\ requests = 0
  /\ last = NoStep
  /\ store = StoreAtStart(fs)
  /\ procs = NoProcs

SaveToken == SetJWTOver({"Set new token"}, ExpTokens)

NextExpiry ==
  \/ SaveToken
  \/ Prompt

SpecExpiry == InitExpiry /\ [][NextExpiry]_vars

(***************************************************************************)
(* Properties.                                                             *)
(***************************************************************************)
Range(seq) == {seq[i] : i \in 1..Len(seq)}
\* the step called executeRequest: the transport was called
Executed(step) == Len(step.net) = 1
Sent(step) == step.net[1].request
Answer(step) == step.net[1].answer
Items(files) == loadHistory(files).items
LastEntry(files) == Items(files)[Len(Items(files))]
Printed(step, text) == \E i \in 1..Len(step.out) : step.out[i].line = text

\* the entry has the shape of the answer the network gave
ShapeMatches(entry, answer) ==
  IF answer.kind = "ok"
  THEN /\ entry.status = N(answer.status)
       /\ "duration" \in DOMAIN entry
       /\ entry.duration >= 0
       /\ "error" \notin DOMAIN entry
  ELSE /\ "error" \in DOMAIN entry
       /\ entry.error # ""
       /\ "duration" \notin DOMAIN entry
       /\ entry.status = IF answer.kind = "http" THEN N(answer.status) ELSE S("ERROR")

\* C2: every executeRequest call appends exactly one entry to the history,
\* and the entry has the shape of the outcome: a success carries the response
\* status and a duration and no error; a failure carries an error message and
\* no duration, with the status of the error's response if there is one and
\* "ERROR" otherwise.
C2_EntryMatchesOutcome ==
  [][Executed(last') =>
       /\ Items(fs') = Append(Items(fs), LastEntry(fs'))
       /\ ShapeMatches(LastEntry(fs'), Answer(last'))
       /\ LastEntry(fs').method = Sent(last').method
       /\ LastEntry(fs').url = Sent(last').url]_vars

\* a request that got a 500 is on record with status 500, after an older entry
C2_Witness ==
  /\ Executed(last)
  /\ Answer(last).kind = "http"
  /\ Len(Items(fs)) = 3
  /\ LastEntry(fs).status = N(500)

\* C3: a transport failure does not leave executeRequest: the call completes
\* normally, the failure is on record, and in interactive mode the loop goes
\* on to its next prompt.
C3_FailureIsContained ==
  (Executed(last) /\ Answer(last).kind # "ok") =>
     /\ ~last.threw
     /\ pc # "exit1"
     /\ Len(Items(fs)) > 0
     /\ "error" \in DOMAIN LastEntry(fs)
     /\ LastEntry(fs).timestamp = toISOString(now)
     /\ (last.op # "main" => pc = "ran" /\ keepGoing)

\* a menu request that found no server, and the loop goes on
C3_Witness ==
  /\ Executed(last)
  /\ Answer(last).kind = "network"
  /\ last.op = "Make new request"
  /\ pc = "ran"
  /\ keepGoing

\* the headers the caller of executeRequest supplies in a step, from the
\* files before the step
GivenHeaders(files, step) ==
  CASE step.op = "Re-run from history" -> Items(files)[step.input.index + 1].headers
    [] step.op = "Make new request" ->
         IF step.input.headersInput = "{\"Authorization\":\"Basic x\"}"
         THEN ("Authorization" :> "Basic x") ELSE EmptyObject
    [] OTHER ->
         IF Or(step.input.h, step.input.headers) = S("{\"Authorization\":\"Basic x\"}")
         THEN ("Authorization" :> "Basic x") ELSE EmptyObject

\* C4: when a credential is stored as executeRequest runs, the transport
\* gets Authorization = "Bearer <token>" whatever Authorization the caller
\* gave (a re-run entry's included) and the caller's other headers; when none
\* is stored it gets the caller's headers unchanged.
C4_BearerOverrides ==
  [][Executed(last') =>
       LET jwt == loadJWT(fs)
           given == GivenHeaders(fs, last')
           sent == Sent(last').headers
       IN  IF jwt # Null
           THEN /\ DOMAIN sent = DOMAIN given \cup {"Authorization"}
                /\ sent["Authorization"] = "Bearer " \o jwt.s
                /\ \A k \in DOMAIN given \ {"Authorization"} : sent[k] = given[k]
           ELSE sent = given]_vars

\* a re-run of the entry that was sent with an older token goes out with the
\* token stored now
C4_Witness ==
  /\ Executed(last)
  /\ last.op = "Re-run from history"
  /\ last.input.index = 1
  /\ Items(fs)[2].headers["Authorization"] = "Bearer h.e30.s"
  /\ Sent(last).headers["Authorization"] = "Bearer h.eyJleHAiOjF9.s"

\* the step was given a headers or body string that is not JSON
BadHeaders(step) ==
  \/ step.op = "Make new request" /\ step.input.headersInput = "{bad json"
  \/ /\ step.op = "main"
     /\ nonInteractive(variant, step.input)
     /\ ~showHelp(variant, step.input) /\ ~showVersion(variant, step.input)
     /\ Or(step.input.h, step.input.headers) = S("{bad json")
BadBody(step) ==
  \/ /\ step.op = "Make new request"
     /\ step.input.method \in BodyMethods(variant)
     /\ step.input.bodyAnswer = "{bad json"
  \/ /\ step.op = "main"
     /\ nonInteractive(variant, step.input)
     /\ ~showHelp(variant, step.input) /\ ~showVersion(variant, step.input)
     /\ Or(step.input.b, step.input.body) = S("{bad json")

\* C5: a request whose headers or body string is not valid JSON does not
\* throw, from the prompt and from the -h/-b flags alike: the input counts as
\* an empty object, the request goes out and an entry is appended for it.
C5_MalformedJsonTolerated ==
  (BadHeaders(last) \/ BadBody(last)) =>
     /\ ~last.threw
     /\ Executed(last)
     /\ (BadHeaders(last) => DOMAIN Sent(last).headers \subseteq {"Authorization"})
     /\ (BadBody(last) => Sent(last).data = EmptyObject)
     /\ Len(Items(fs)) > 0
     /\ LastEntry(fs).timestamp = toISOString(now)
     /\ LastEntry(fs).headers = Sent(last).headers

\* C6: in the interactive loop every action but Exit is performed and the
\* menu comes up again; the loop ends, and main returns normally, only on Exit.
C6_LoopUntilExit ==
  /\ (last.op \in MenuChoices(variant) \ {"Exit"} =>
        ~last.threw /\ pc = "ran" /\ keepGoing)
  /\ (last.op = "Exit" => pc = "ran" /\ ~keepGoing)
  /\ (last.op = "finish" => pc = "exit0")
  /\ (pc = "exit1" => last.op = "main")

\* the JWT step saved the token the user typed
JwtSet(step) == step.op = "Set JWT token" /\ Printed(step, "JWT saved successfully.")
JwtRemoved(step) == step.op = "Set JWT token" /\ Printed(step, "JWT removed.")

\* C9: after a set, loadJWT returns the token that was set, the file holding
\* that token and nothing else; after a remove it returns null; a JWT step
\* that neither sets nor removes leaves what loadJWT returns as it was.
C9_LastSetWins ==
  [][last'.op = "Set JWT token" =>
       /\ (JwtSet(last') =>
             /\ loadJWT(fs') = S(last'.input.token)
             /\ fs'[jwtFile] = File(JSONStringify(Obj([token |-> S(last'.input.token)]))))
       /\ (JwtRemoved(last') => loadJWT(fs') = Null /\ ~existsSync(fs', jwtFile))
       /\ (~JwtSet(last') /\ ~JwtRemoved(last') => fs'[jwtFile] = fs[jwtFile])]_vars

\* the user asked to set the token (the desktop dialog has other actions)
SetAttempt(step) ==
  /\ step.op = "Set JWT token"
  /\ (variant = "desktop" => step.input.action = "Set new token")
InvalidToken(token) == token = "" \/ ~includes(token, ".")

\* C10: setting a token that is empty or has no "." is rejected before the
\* save in every variant: the credential file stays as it was.
C10_InvalidTokenRejected ==
  [][SetAttempt(last') /\ InvalidToken(last'.input.token) =>
       fs'[jwtFile] = fs[jwtFile]]_vars

\* what loadHistory returned when the model started
AtStart == loadHistory([fs EXCEPT ![historyFile] = store.origin])

\* C1: in one process, from an empty history, after N calls of saveHistory
\* (N >= 0, no clear between) loadHistory returns those N entries in the
\* order of the calls: none lost, none twice, none out of place.
C1_AppendsAreKept ==
  (AtStart = Arr(<<>>) /\ ~store.cleared) => loadHistory(fs) = Arr(store.journal)

\* three appends of two different entries onto a missing file
C1_Witness ==
  /\ store.origin = NoFile
  /\ ~store.cleared
  /\ store.journal = <<Entry0, Entry1, Entry0>>
  /\ Items(fs) = <<Entry0, Entry1, Entry0>>

RaceDone == \A p \in Procs : procs.of[p].pc = "done"

\* C7: two processes that each append one entry, with the read and the
\* rewrite as separate steps, end with both entries or with the last
\* writer's entry alone, the other append lost; appends of a single process
\* always end with both entries, in the order of the calls.
C7_LostUpdateOnlyAcrossProcesses ==
  RaceDone =>
    LET first == procs.writes[1]
        second == procs.writes[2]
        both == AtStart.items \o <<EntryOf(first), EntryOf(second)>>
        lastOnly == AtStart.items \o <<EntryOf(second)>>
    IN  /\ IsArray(AtStart)
        /\ first # second
        /\ IF procs.mode = "one"
           THEN Items(fs) = both
           ELSE /\ Items(fs) \in {both, lastOnly}
                /\ Items(fs) = lastOnly <=>
                     procs.of[second].history = AtStart

\* process 1 wrote, then process 2 wrote from what it had read before:
\* the entry of process 1 is gone
C7_Witness ==
  /\ RaceDone
  /\ procs.mode = "two"
  /\ procs.writes = <<1, 2>>
  /\ Items(fs) = AtStart.items \o <<EntryOf(2)>>
  /\ \A i \in 1..Len(Items(fs)) : i > Len(AtStart.items) => Items(fs)[i] # EntryOf(1)

\* C8: after clearHistory, loadHistory returns the empty sequence whatever
\* the file held before (entries, no file, unparsable text), and the
\* entries appended after the clear are all that loadHistory returns.
C8_ClearStartsFresh ==
  store.cleared => loadHistory(fs) = Arr(store.journal)

\* cleared from a file that JSON.parse rejects, then one entry appended
C8_Witness ==
  /\ store.cleared
  /\ store.origin = File(Garbage)
  /\ store.journal = <<Entry1>>
  /\ Items(fs) = <<Entry1>>

\* the command line asks for the non-interactive mode: a positional word,
\* or one of the clear, export and filter flags in its short or long form
AsksNonInteractive(args) ==
  \/ Len(args.pos) > 0
  \/ \E k \in {"c", "clearHistory", "e", "exportHistory", "f", "filterHistory"} :
       args[k] # Undefined

\* C11: the program that has the two entry modes picks one by the command
\* line: with a positional method or a clear, export or filter flag, short
\* or long, it runs the non-interactive path and the menu never comes up;
\* with none of them it prints the banner and shows the menu.
C11_ModeByFlags ==
  (/\ variant = "cli"
   /\ last.op = "main"
   /\ ~showHelp(variant, last.input)
   /\ ~showVersion(variant, last.input)) =>
     IF AsksNonInteractive(last.input)
     THEN pc # "menu" /\ ~Printed(last, "httptmux")
     ELSE pc = "menu" /\ Printed(last, "httptmux")

\* the step is an export: the menu action, or a launch with -e
IsExport(step) ==
  \/ step.op = "Export history"
  \/ /\ step.op = "main"
     /\ variant = "cli"
     /\ step.input.e # Undefined
\* the file the export is to write: the path given, the default without one
ExportTarget(step) ==
  IF step.op = "main"
  THEN IF step.input.e.t = "string" THEN step.input.e.s ELSE defaultExport
  ELSE IF trim(step.input.filePath) # "" THEN trim(step.input.filePath)
  ELSE defaultExport

\* C12: an export writes the whole history, unfiltered, to the path given
\* and to the default file in the home directory when none is given, from
\* the menu with a blank path and from -e without a path alike, and it
\* completes without error.
C12_ExportWritesAll ==
  IsExport(last) =>
     /\ ~last.threw
     /\ pc # "exit1"
     /\ Printed(last, "History exported to")
     /\ fs[ExportTarget(last)] = File(JSONStringify(loadHistory(fs)))

\* the entries a step listed, none when it printed no list
Yield(step) ==
  IF \E i \in 1..Len(step.out) : "listed" \in DOMAIN step.out[i]
  THEN step.out[CHOOSE i \in 1..Len(step.out) : "listed" \in DOMAIN step.out[i]].listed
  ELSE <<>>

\* the step is a filter: the menu action, or a launch with -f "..."
IsFilter(step) ==
  \/ step.op = "Filter history"
  \/ /\ step.op = "main"
     /\ variant = "cli"
     /\ step.input.f # Undefined
     /\ step.input.f.t = "string"
\* the status and the date the filter was given, "" for one left out
GivenStatus(step) ==
  IF step.op = "main"
  THEN IF includes(step.input.f.s, "status=404") THEN "404"
       ELSE IF includes(step.input.f.s, "status=ERROR") THEN "ERROR"
       ELSE IF includes(step.input.f.s, "status=200") THEN "200" ELSE ""
  ELSE step.input.status
GivenSince(step) ==
  IF step.op = "main"
  THEN IF includes(step.input.f.s, "since=1970-01-02") THEN "1970-01-02"
       ELSE IF includes(step.input.f.s, "since=1970-01-01") THEN "1970-01-01" ELSE ""
  ELSE step.input.since
\* midnight UTC of a date, in milliseconds
Midnight(date) == IF date = "1970-01-01" THEN 0 ELSE 86400000
StatusText(entry) ==
  IF entry.status.t = "number" THEN ToString(entry.status.n) ELSE entry.status.s

\* C13: a filter yields exactly the entries of the history, in their order,
\* whose status as a string equals the status given and whose timestamp is
\* at or after the date given; a filter left out excludes nothing and the
\* two filters hold together.
C13_FilterYieldsMatches ==
  (IsFilter(last) /\ GivenSince(last) \in {"", "1970-01-01", "1970-01-02"}) =>
     /\ ~last.threw
     /\ Yield(last) =
          SelectSeq(Items(fs),
                    LAMBDA e :
                      /\ GivenStatus(last) = "" \/ StatusText(e) = GivenStatus(last)
                      /\ GivenSince(last) = ""
                           \/ e.timestamp.iso >= Midnight(GivenSince(last)))

\* status 404 over the statuses 200, 404, 404, "ERROR": the two 404 entries
C13_Witness ==
  /\ last.op = "Filter history"
  /\ Items(fs) = BrowseHistory
  /\ last.input.status = "404"
  /\ last.input.since = ""
  /\ Yield(last) = <<BrowseHistory[2], BrowseHistory[3]>>

\* the file holds no sequence of entries: it is missing, or its text is not
\* JSON, or it is JSON of another kind
Malformed(file) ==
  \/ ~file.exists
  \/ ~file.text.json
  \/ ~IsArray(file.text.of)

\* C14: loadHistory always returns a sequence and no error surfaces: for a
\* missing file and for every malformed content, JSON that is no sequence
\* included, it returns the empty sequence, so a saveHistory that follows
\* succeeds and leaves a history of one entry.
C14_LoadAlwaysSequence ==
  /\ IsArray(loadHistory(fs))
  /\ (Malformed(fs[historyFile]) => loadHistory(fs) = Arr(<<>>))
  /\ pc # "exit1"
  /\ (Malformed(store.origin) /\ ~store.cleared /\ Len(store.journal) = 1 =>
        Items(fs) = store.journal)

IsPrefix(a, b) == Len(a) <= Len(b) /\ SubSeq(b, 1, Len(a)) = a
\* the step is a clear: the menu action, or a launch with the clear flag
IsClear(step) ==
  \/ step.op = "Clear history"
  \/ /\ step.op = "main"
     /\ (step.input.c # Undefined \/ step.input.clearHistory # Undefined)

\* C15: entries never change once appended: every step but a clear leaves
\* the history it found as a prefix of the history it leaves; a re-run of
\* entry i appends one entry with the method, url and body of entry i and
\* a timestamp of its own, and entry i stays as it was.
C15_EntriesImmutable ==
  [][/\ ~IsClear(last') => IsPrefix(Items(fs), Items(fs'))
     /\ (last'.op = "Re-run from history" /\ Len(Items(fs)) > 0) =>
          LET old == Items(fs)[last'.input.index + 1]
              new == LastEntry(fs')
          IN  /\ Len(Items(fs')) = Len(Items(fs)) + 1
              /\ Items(fs')[last'.input.index + 1] = old
              /\ new.method = old.method
              /\ new.url = old.url
              /\ new.body = old.body
              /\ new.timestamp = toISOString(now')]_vars

CallsExecute(files, step) ==
  \/ step.op = "Make new request"
  \/ step.op = "Re-run from history" /\ variant # "cli" /\ Len(Items(files)) > 0
  \/ /\ step.op = "main"
     /\ nonInteractive(variant, step.input)
     /\ Len(step.input.pos) > 0
     /\ Truthy(Or(step.input.u, step.input.url))
     /\ Or(step.input.h, step.input.headers) # S("{bad json")
     /\ Or(step.input.b, step.input.body) # S("{bad json")

\* C17: nothing is retried: a call of executeRequest makes exactly one
\* transport call, whether it succeeds or fails, and one non-interactive
\* invocation makes at most one request.
C17_ExactlyOnce ==
  [][/\ CallsExecute(fs, last') => Len(last'.net) = 1 /\ requests' = requests + 1
     /\ ~CallsExecute(fs, last') => Len(last'.net) = 0 /\ requests' = requests
     /\ last'.op = "main" => requests' <= 1]_vars

\* a non-interactive request that got a 500: one call, one entry, the end
C17_Witness ==
  /\ last.op = "main"
  /\ Executed(last)
  /\ Answer(last).kind = "http"
  /\ requests = 1
  /\ Items(fs) = <<LastEntry(fs)>>
  /\ pc = "exit0"

\* exp of the payload of a token, in seconds
ExpOf(token) ==
  CASE token = "h.eyJleHAiOjB9.s" -> 0
    [] token = "h.eyJleHAiOjF9.s" -> 1
    [] token = "h.eyJleHAiOjJ9.s" -> 2
    [] token = "h.eyJleHAiOjkwfQ.s" -> 90
    [] token = "h.eyJleHAiOjEyMH0.s" -> 120
\* round(ms / 60000) for ms >= 0
RoundedMinutes(ms) == (ms + 30000) \div 60000

\* C18: saving a token whose payload carries exp reports it as expired when
\* exp*1000 is before the present time, and when exp is in the future it
\* reports round((exp*1000 - now)/60000) minutes, a positive number.
C18_ExpiryReport ==
  (last.op = "Set JWT token" /\ last.input.token \in ExpTokens) =>
     LET expiry == ExpOf(last.input.token) * 1000
     IN  /\ expiry < now => Printed(last, "JWT token has expired.")
         /\ expiry > now =>
              \E i \in 1..Len(last.out) :
                 /\ last.out[i].line = "JWT expires in minutes"
                 /\ last.out[i].minutesLeft = RoundedMinutes(expiry - now)
                 /\ last.out[i].minutesLeft > 0

IsSubstring(a, b) == \E i \in 0..(Len(b) - Len(a)) : SubSeq(b, i + 1, i + Len(a)) = a
\* the keywords typed, in upper case
Uppercased(keyword) ==
  CASE keyword = "get" -> "GET"
    [] keyword = "http://A" -> "HTTP://A"
    [] keyword = "Error" -> "ERROR"
    [] OTHER -> keyword

\* C19: a search for k yields exactly the entries, in history order, for
\* which k in upper case is part of the method, or k as typed is part of
\* the url, or k is part of the status written as a string; so the empty
\* keyword yields every entry, and a url that differs from k in letter case
\* does not make a match.
C19_SearchYieldsMatches ==
  last.op = "Search history" =>
     /\ ~last.threw
     /\ Yield(last) =
          SelectSeq(Items(fs),
                    LAMBDA e :
                      \/ IsSubstring(Uppercased(last.input.keyword), e.method)
                      \/ IsSubstring(last.input.keyword, e.url)
                      \/ IsSubstring(last.input.keyword, StatusText(e)))
     /\ last.input.keyword = "" => Yield(last) = Items(fs)
     /\ last.input.keyword = "http://A" => Yield(last) = <<>>

\* "get" over four entries: the two GET entries, found by their method
C19_Witness ==
  /\ last.op = "Search history"
  /\ last.input.keyword = "get"
  /\ Items(fs) = BrowseHistory
  /\ Yield(last) = <<BrowseHistory[1], BrowseHistory[3]>>

\* the last two lines a step printed
Rendered(step) ==
  <<step.out[Len(step.out) - 1].line, step.out[Len(step.out)].line>>

\* C20: in the program that renders by method, after a successful request
\* the output is the response headers for a HEAD request, the Allow header
\* for an OPTIONS request (all the headers when there is no Allow) and the
\* body for any other, however the request was issued, the non-interactive
\* mode with the method as the user typed it included.
C20_RenderByMethod ==
  (variant = "cli" /\ Executed(last) /\ Answer(last).kind = "ok") =>
     Rendered(last) =
       CASE toUpperCase(Sent(last).method) = "HEAD" -> <<"Response headers:", "headers">>
         [] toUpperCase(Sent(last).method) = "OPTIONS" ->
              IF "allow" \in DOMAIN ResponseOf(Answer(last)).headers
              THEN <<"Allowed methods:", "allow">>
              ELSE <<"Allowed methods:", "headers">>
         [] OTHER -> <<"Response received:", "data">>

\* the entry a re-run step picked, from the files before the step
Picked(files, step) == Items(files)[step.input.index + 1]
BearerOf(token) == "Bearer " \o token

\* C21: the entry executeRequest appends records the headers as they are
\* after the stored token was attached, so the token is in the history
\* file; a re-run of an entry that carries an Authorization header, made
\* while no credential is stored, sends that header again.
C21_TokenOutlivesRemoval ==
  [][/\ (Executed(last') /\ loadJWT(fs) # Null /\ IsArray(loadHistory(fs'))) =>
          /\ "Authorization" \in DOMAIN LastEntry(fs').headers
          /\ LastEntry(fs').headers["Authorization"] = BearerOf(loadJWT(fs).s)
     /\ (/\ last'.op = "Re-run from history"
         /\ loadJWT(fs) = Null
         /\ IsArray(loadHistory(fs))
         /\ Len(Items(fs)) > 0
         /\ "Authorization" \in DOMAIN Picked(fs, last').headers) =>
          /\ Executed(last')
          /\ Sent(last').headers["Authorization"] =
               Picked(fs, last').headers["Authorization"]
          /\ LastEntry(fs').headers["Authorization"] =
               Picked(fs, last').headers["Authorization"]]_vars

\* what a launch did, read off what it printed and sent
Cleared(step) == Printed(step, "History cleared.")
Exported(step) == Printed(step, "History exported to")
Filtered(step) == Printed(step, "Filtered Results:") \/ Printed(step, "No matching entries.")
Performed(step) ==
  (IF Cleared(step) THEN {"clear"} ELSE {}) \cup
  (IF Exported(step) THEN {"export"} ELSE {}) \cup
  (IF Filtered(step) THEN {"filter"} ELSE {}) \cup
  (IF Len(step.net) > 0 THEN {"request"} ELSE {})
\* what the command line asks for, the highest priority first
Asked(args) ==
  IF Truthy(Or(args.c, args.clearHistory)) THEN {"clear"}
  ELSE IF Truthy(Or(args.e, args.exportHistory)) THEN {"export"}
  ELSE IF Truthy(Or(args.f, args.filterHistory)) THEN {"filter"}
  ELSE IF Len(args.pos) > 0 /\ Truthy(Or(args.u, args.url)) THEN {"request"}
  ELSE {}
\* the step is one invocation that took the non-interactive path
RanNonInteractive(step) ==
  /\ step.op = "main"
  /\ ~showHelp(variant, step.input)
  /\ ~showVersion(variant, step.input)
  /\ nonInteractive(variant, step.input)

\* C22: one non-interactive invocation performs at most one of clear,
\* export, filter and request, and the one it performs is the first that the
\* command line asks for in the order clear, export, filter, request; a
\* request goes out only with both a positional method and a url; with a
\* method and no url (and no clear, export or filter flag) no file changes
\* and nothing is sent.
C22_OneByPriority ==
  [][RanNonInteractive(last') =>
       /\ Cardinality(Performed(last')) <= 1
       /\ Len(last'.net) <= 1
       /\ Performed(last') \subseteq Asked(last'.input)
       /\ ~last'.threw => Performed(last') = Asked(last'.input)
       /\ Len(last'.net) > 0 =>
            /\ Len(last'.input.pos) > 0
            /\ Truthy(Or(last'.input.u, last'.input.url))
       /\ Asked(last'.input) = {} => fs' = fs /\ Len(last'.net) = 0]_vars

\* a command line with -c, -e, -f and a whole request: the history was
\* cleared, nothing was exported and nothing was sent
C22_Witness ==
  /\ RanNonInteractive(last)
  /\ Truthy(last.input.c) /\ Truthy(last.input.e) /\ Truthy(last.input.f)
  /\ Len(last.input.pos) > 0
  /\ Performed(last) = {"clear"}
  /\ ~existsSync(fs, customExport)
  /\ Items(fs) = <<>>
  /\ IsArray(AtStart)
  /\ Len(AtStart.items) > 0

\* the operations that only read and print
ReadOnlyOps == {"View history", "Search history", "Filter history", "Help", "Version"}
\* the step ran a clear, a filter or an export, from the menu or from the
\* command line, and the path the export reported
DidClear(step) == step.op = "Clear history" \/ (step.op = "main" /\ Cleared(step))
DidFilter(step) == step.op = "Filter history" \/ (step.op = "main" /\ Filtered(step))
DidExport(step) == Exported(step)
ExportedTo(step) ==
  step.out[CHOOSE i \in 1..Len(step.out) : step.out[i].line = "History exported to"].path
\* the launch printed the help or the version
StaticText(step) ==
  step.op = "main" /\ (Printed(step, "httptmux CLI Help") \/ Printed(step, "httptmux v"))
SameHistory == fs'[historyFile] = fs[historyFile]
SameCredential == fs'[jwtFile] = fs[jwtFile]

\* C23: View, Search, Filter, Help and Version change neither the history
\* file nor the credential file; an export to a path that is neither of the
\* two changes neither; a clear and a request execution leave the credential
\* file as it was; setting and removing the token leave the history file as
\* it was.
C23_Frame ==
  [][/\ (last'.op \in ReadOnlyOps \/ DidFilter(last') \/ StaticText(last')) =>
          SameHistory /\ SameCredential
     /\ (DidExport(last') /\ ExportedTo(last') \notin {historyFile, jwtFile}) =>
          SameHistory /\ SameCredential
     /\ (DidClear(last') \/ Len(last'.net) > 0) => SameCredential
     /\ last'.op \in {"Make new request", "Re-run from history"} => SameCredential
     /\ last'.op = "Set JWT token" => SameHistory]_vars

\* a filter that listed one entry of a history of two, with a credential
\* stored: both files are there as they were
C23_Witness ==
  /\ last.op = "Filter history"
  /\ Len(Yield(last)) = 1
  /\ Len(Items(fs)) = 2
  /\ loadJWT(fs) # Null

\* the words of a text between its spaces, and the value of the first word
\* that starts with key: what follows the key, "" when no word has it
Words(text) == SelectSeq(split(text, " "), LAMBDA word : word # "")
ValueOf(text, key) ==
  LET hits == SelectSeq(Words(text), LAMBDA word : startsWith(word, key))
  IN  IF Len(hits) = 0 THEN ""
      ELSE SubSeq(hits[1], Len(key) + 1, Len(hits[1]))
\* the launch got -f with a list of tokens
FilterLine(step) ==
  /\ RanNonInteractive(step)
  /\ Asked(step.input) = {"filter"}
  /\ step.input.f # Undefined
  /\ step.input.f.t = "string"
\* what the menu's Filter history does with a status and a date
Interactive(files, status, since) == menuFilter("cli", World(files), status, since)

\* C24: -f with a space-separated list of key=value tokens does what the
\* menu's Filter history does when given the value of the first status=
\* token as the status and the value of the first since= token as the date,
\* each left empty when there is no such token: the order of the tokens does
\* not matter and tokens with other keys are ignored.
C24_FlagEqualsMenuFilter ==
  FilterLine(last) =>
    LET menu == Interactive(fs, ValueOf(last.input.f.s, "status="),
                            ValueOf(last.input.f.s, "since="))
    IN  /\ last.out = menu.w.out
        /\ last.threw = menu.threw
        /\ fs = menu.w.fs

\* two status tokens: the two entries with the first status are listed, as
\* the menu lists them for that status
C24_Witness ==
  /\ FilterLine(last)
  /\ last.input.f.s = "status=404 status=200"
  /\ Len(Items(fs)) = 4
  /\ Len(Yield(last)) = 2
  /\ Yield(last)[1].status = N(404)

====
